---- MODULE Spec2Model ----
(***************************************************************************)
(* DjangoFormBaseComponent (django-form-base.component.ts): the            *)
(* configuration resolver wired in ngOnInit, the submission pipeline       *)
(* (submitted, submit_to_django, _flatten) and the component's inputs.     *)
(*                                                                         *)
(* JavaScript values are modelled as follows.                              *)
(*   - a string is a sequence of characters; null/undefined is Null and a  *)
(*     present string s is Str(s), so that `!!x` and `if (x)` are computed *)
(*     by Truthy;                                                          *)
(*   - an object is the sequence of its own properties in insertion order, *)
(*     each an entry [k, v]; a property value is a scalar Leaf(s) or a     *)
(*     nested object Obj(o).  Insertion order is kept because _flatten     *)
(*     iterates Object.getOwnPropertyNames.                                *)
(***************************************************************************)
EXTENDS Integers, Sequences, FiniteSets, TLC

VARIABLES
    url_,             \* current value of the BehaviorSubject url$ (line 19)
    _config_,         \* current value of the BehaviorSubject _config$ (line 21)
    config_,          \* the field config$ (line 20): "undefined" or "pipeline"
    merge_src2,       \* what line 103 read from this.config$ when ngOnInit ran
    extra_form_data,  \* the input extra_form_data (line 30)
    form,             \* this.form.value, the live value object of the form
    http,             \* every request handed to httpClient, in order
    pending,          \* subscribers of config$.first() still waiting (line 166)
    delivered,        \* history: the configuration each such subscriber got
    submit,           \* values emitted on the output submit (line 37)
    cancel,           \* values emitted on the output cancel (line 44)
    snackBar,         \* notices opened on the snack bar (line 191)
    error_service,    \* errors handed to show_communication_error
    url_log,          \* history: number of calls of the django_url setter
    calls,            \* history: number of submitted / subscribe calls so far
    last,             \* history: the operation that ran last and its outcome
    emitted,          \* values a request stage run on its own has emitted
    returned          \* the last call of a function run on its own, its result
\* Every request, pending subscriber and emitted value carries `call`, the
\* number of the submitted / subscribe call it stems from: history, no part
\* of the value the program handles.

vars == <<url_, _config_, config_, merge_src2, extra_form_data, form, http,
          pending, delivered, submit, cancel, snackBar, error_service, url_log,
          calls, last, emitted, returned>>

(***************************************************************************)
(* Bounds of the model.                                                    *)
(***************************************************************************)
MaxCalls == 2      \* submitted / subscribe calls in one run
MaxInputs == 2     \* calls of the django_url setter in one run

(***************************************************************************)
(* JavaScript values.                                                      *)
(***************************************************************************)
Null == [none |-> TRUE]
Str(s) == [str |-> s]
IsNull(x) == "none" \in DOMAIN x
\* a property name or button id: a string out of KeyNames, or ''
Key(k) == [key |-> k]
\* !!x for a string-or-null x: null, undefined and '' are falsy
Truthy(x) == \/ "str" \in DOMAIN x /\ x.str # <<>>
             \/ "key" \in DOMAIN x /\ x.key # ""

Leaf(s) == [s |-> s]
Obj(o) == [o |-> o]
Entry(k, v) == [k |-> k, v |-> v]
\* Object(x) === x
IsObject(x) == "o" \in DOMAIN x
True == Leaf("true")

Names(o) == [i \in 1..Len(o) |-> o[i].k]          \* Object.getOwnPropertyNames
Has(o, k) == \E i \in 1..Len(o) : o[i].k = k
Idx(o, k) == CHOOSE i \in 1..Len(o) : o[i].k = k
Get(o, k) == o[Idx(o, k)].v                       \* o[k], for an own property
\* o[k] = v: an existing property keeps its place, a new one is added last
Put(o, k, v) == IF Has(o, k) THEN [o EXCEPT ![Idx(o, k)].v = v]
                ELSE Append(o, Entry(k, v))
\* delete o[k]
Delete(o, k) == LET keep(e) == e.k # k IN SelectSeq(o, keep)

\* for (const k of names(src)) dst[k] = src[k]; also {...dst, ...src}
RECURSIVE AssignAll(_, _)
AssignAll(dst, src) ==
    IF src = <<>> THEN dst
    ELSE AssignAll(Put(dst, Head(src).k, Head(src).v), Tail(src))

\* The mapping an object denotes, whatever the order of its properties.
AsMap(o) == [k \in {o[i].k : i \in 1..Len(o)} |-> Get(o, k)]

(***************************************************************************)
(* _flatten (lines 208-222).  Keys are drawn from KeyNames; the ones that  *)
(* start with 'generated_' are the markers.                                *)
(***************************************************************************)
Markers == {"generated_x", "generated_y"}
KeyNames == {"a", "b", "save"} \cup Markers
\* name && name.startsWith('generated_')
\* a variant that takes every name for a marker (told apart by C14)
StartsWithGenerated_any_name(name) == Truthy(name)
StartsWithGenerated(name) == Truthy(name) /\ name.key \in Markers

RECURSIVE _flatten(_, _, _), FlattenLoop(_, _)
\* lines 212-215: the loop over the names current had when the loop began; a
\* name an earlier iteration deleted reads as undefined, which line 209 skips.
\* a variant that does not descend into the values (told apart by C13)
FlattenLoop_shallow(current, names) == current
FlattenLoop(current, names) ==
    IF names = <<>> THEN current
    ELSE LET k == Head(names)
         IN  FlattenLoop(IF Has(current, k)
                         THEN _flatten(Key(k), Get(current, k), current).parent
                         ELSE current,
                         Tail(names))
\* The call _flatten(name, current, parent) mutates current and parent in
\* place; the result is the pair of them after the call.  parent[name] is
\* current (or there is no parent: name and parent are Null).
_flatten(name, current, parent) ==
    IF ~IsObject(current) THEN [current |-> current, parent |-> parent]
    ELSE LET cur == FlattenLoop(current.o, Names(current.o))
         IN  IF StartsWithGenerated(name)
             THEN [current |-> Obj(cur),
                   parent |-> Delete(AssignAll(parent, cur), name.key)]
             ELSE [current |-> Obj(cur),
                   parent |-> IF IsNull(name) THEN parent
                              ELSE Put(parent, name.key, Obj(cur))]

\* The live form value after _flatten(null, value, null) ran on its shallow
\* copy `value` (line 153-154): the copy shares every nested object with the
\* live value, so a nested object the loop visits is flattened in place.
\* `over` holds the names a hoist has written into the copy: under those the
\* copy no longer holds the live object, and what it holds was flattened when
\* its former owner was visited.
RECURSIVE LiveLoop(_, _, _, _)
LiveLoop(value, live, names, over) ==
    IF names = <<>> THEN live
    ELSE LET k == Head(names)
             present == Has(value, k)
             isObj == present /\ IsObject(Get(value, k))
             r == _flatten(Key(k), Get(value, k), value)
         IN  LiveLoop(IF present THEN r.parent ELSE value,
                      IF isObj /\ k \notin over THEN Put(live, k, r.current)
                      ELSE live,
                      Tail(names),
                      IF isObj /\ k \in Markers
                      THEN over \cup {r.current.o[i].k : i \in 1..Len(r.current.o)}
                      ELSE over)

(***************************************************************************)
(* Inputs of the model.                                                    *)
(***************************************************************************)
U == <<"u">>
UrlInputs == {Null, Str(<<>>), Str(U), Str(U \o <<"/">>)}

Config(url, method, hid) ==
    [django_url |-> url, method |-> method, has_initial_data |-> hid]
Methods == {"post", "patch", "put"}
Configs == {Config(Str(U), m, FALSE) : m \in Methods}
               \cup {Config(Null, "post", FALSE), Config(Str(<<>>), "patch", FALSE)}
ConfigInputs == {Null, Config(Null, "post", FALSE), Config(Str(U), "post", TRUE),
                 Config(Str(U), "patch", FALSE)}

\* extra_form_data: absent, a plain object, or an HttpParams (its keys in
\* order, each with the list of its values)
Plain(o) == [plain |-> o]
Params(p) == [params |-> p]
ExtraInputs == {Null,
                Plain(<<Entry("a", Leaf("2")), Entry("c", Leaf("1"))>>),
                Params(<<[k |-> "a", vs |-> <<"2", "1">>]>>)}
Responses == {"r1", "r2"}
Errors == {"e1", "e2"}

FormValues == {
    <<Entry("a", Leaf("1"))>>,
    <<Entry("a", Leaf("1")),
      Entry("generated_x", Obj(<<Entry("b", Leaf("2")), Entry("a", Leaf("2"))>>))>>,
    <<Entry("generated_x", Obj(<<Entry("generated_y", Obj(<<Entry("b", Leaf("1"))>>))>>))>>,
    <<Entry("b", Obj(<<Entry("generated_x", Obj(<<Entry("a", Leaf("1"))>>))>>)),
      Entry("save", Leaf("1"))>> }
ButtonIds == {Null, Key("save")}

(***************************************************************************)
(* The state after construction (lines 19-46): both subjects hold null,    *)
(* config$ is declared without a value, nothing was requested or emitted.  *)
(* The input extra_form_data and the form's value are the host's.          *)
(***************************************************************************)
NoCall == [op |-> "none", button_id |-> Null, is_cancel |-> FALSE,
           raised |-> "none"]
NoReturn == [fn |-> "none"]

Init ==
    /\ url_ = Null
    /\ _config_ = Null
    /\ config_ = "undefined"
    /\ merge_src2 = "unset"
    /\ extra_form_data \in ExtraInputs
    /\ form \in FormValues
    /\ http = <<>>
    /\ pending = <<>>
    /\ delivered = <<>>
    /\ submit = <<>>
    /\ cancel = <<>>
    /\ snackBar = <<>>
    /\ error_service = <<>>
    /\ url_log = 0
    /\ calls = 0
    /\ last = NoCall
    /\ emitted = <<>>
    /\ returned = NoReturn

(***************************************************************************)
(* Inputs (lines 29-30, 48-56) and edits of the form.  The run is cut     *)
(* after MaxCalls calls: an input that nothing can read any more is not    *)
(* taken.                                                                  *)
(***************************************************************************)
\* set django_url (lines 48-51): url$.next(_url).  No subscription of url$
\* outlives the call that made it (see SubscribeConfig), so nobody is told.
django_url(_url) ==
    /\ url_log < MaxInputs
    /\ calls < MaxCalls
    /\ url_' = _url
    /\ url_log' = url_log + 1
    /\ UNCHANGED <<emitted, returned>>
    /\ UNCHANGED <<_config_, config_, merge_src2, extra_form_data, form, http,
                   pending, delivered, submit, cancel, snackBar, error_service,
                   calls, last>>

\* set config (lines 53-56): _config$.next(_config)
config(_config) ==
    /\ calls < MaxCalls
    /\ _config_ # _config
    /\ _config_' = _config
    /\ UNCHANGED <<emitted, returned>>
    /\ UNCHANGED <<url_, config_, merge_src2, extra_form_data, form, http,
                   pending, delivered, submit, cancel, snackBar, error_service,
                   url_log, calls, last>>

\* the host binds another value to the input extra_form_data (line 30)
SetExtra(e) ==
    /\ calls < MaxCalls \/ pending # <<>>
    /\ extra_form_data # e
    /\ extra_form_data' = e
    /\ UNCHANGED <<emitted, returned>>
    /\ UNCHANGED <<url_, _config_, config_, merge_src2, form, http, pending,
                   delivered, submit, cancel, snackBar, error_service, url_log,
                   calls, last>>

\* the user edits the form: the form holds a new value object
FormEdit(v) ==
    /\ calls < MaxCalls
    /\ form # v
    /\ form' = v
    /\ UNCHANGED <<emitted, returned>>
    /\ UNCHANGED <<url_, _config_, config_, merge_src2, extra_form_data, http,
                   pending, delivered, submit, cancel, snackBar, error_service,
                   url_log, calls, last>>

(***************************************************************************)
(* The configuration resolver (lines 97-149).                              *)
(***************************************************************************)
\* lines 130-134: the address of the form description
django_form_url(url) ==
    (IF url[Len(url)] # "/" THEN url \o <<"/">> ELSE url)
        \o <<"f", "o", "r", "m", "/">>

\* a request handed to httpClient; ctx is what the closure that waits for
\* the response holds (the payload `data` of submit_to_django, the django_url
\* of _download_django_form, the _config of line 109); answer is the
\* response or the transport error it ended with
Request(verb, url, data, call, ctx) ==
    [verb |-> verb, url |-> url, data |-> data, state |-> "pending",
     answer |-> "", call |-> call, ctx |-> ctx]
\* lines 135-140: the GET that subscribing _download_django_form(url) issues
_download_django_form(url, call) ==
    Request("get", django_form_url(url), extra_form_data, call, Str(url))

\* Only an Observable can be merged: this is what RxJS asks of a merge source.
IsStream(x) == x = "pipeline"

\* ngOnInit (lines 97-127) runs once, when config$ is still unassigned.  The
\* merge of line 98 takes `this.config$` (line 103) as its second source: it
\* is read before line 106 assigns it, so the source is undefined; the
\* subject _config$ that the config setter feeds is not among the sources.
ngOnInit ==
    /\ config_ = "undefined"
    /\ merge_src2' = config_
    /\ config_' = "pipeline"
    /\ UNCHANGED <<emitted, returned>>
    /\ UNCHANGED <<url_, _config_, extra_form_data, form, http, pending,
                   delivered, submit, cancel, snackBar, error_service, url_log,
                   calls, last>>

\* One subscription of config$.  The outer merge (line 106) subscribes
\* _configs[0] first, which subscribes the merge of line 98, which subscribes
\* its sources in order:
\*   1. url$.pipe(filter, mergeMap): url$ replays its value; a truthy url
\*      passes the filter (line 100) and its form description is requested;
\*   2. the second source is no stream, and RxJS ends the merge with a
\*      TypeError ("You provided 'undefined' where a stream was expected").
\* The error tears the subscription down (the request just issued is
\* aborted, no response will be looked at) and reaches the subscriber before
\* _configs[1] is subscribed.  The outcome: the requests issued, the
\* configurations handed to the subscriber (none) and the error.
SubscribeConfig(call) ==
    LET issued == IF Truthy(url_) THEN <<_download_django_form(url_.str, call)>>
                  ELSE <<>>
    IN  [http |-> http \o [i \in 1..Len(issued) |->
                              [issued[i] EXCEPT !.state = "aborted"]],
         emits |-> <<>>,
         error |-> "TypeError"]

\* a consumer (a template's async pipe, a host) subscribes config$
Subscribe ==
    /\ config_ = "pipeline"
    /\ ~IsStream(merge_src2)
    /\ calls < MaxCalls
    /\ calls' = calls + 1
    /\ http' = SubscribeConfig(calls + 1).http
    /\ last' = [op |-> "subscribe", button_id |-> Null, is_cancel |-> FALSE,
                raised |-> SubscribeConfig(calls + 1).error]
    /\ UNCHANGED <<emitted, returned>>
    /\ UNCHANGED <<url_, _config_, config_, merge_src2, extra_form_data, form,
                   pending, delivered, submit, cancel, snackBar, error_service,
                   url_log>>

(***************************************************************************)
(* The submission pipeline (lines 151-206).                                *)
(***************************************************************************)
\* lines 153-157: the payload of a call of submitted
submitted_value(button_id) ==
    LET value == _flatten(Null, Obj(form), Null).current.o
    IN  IF Truthy(button_id) THEN Put(value, button_id.key, True) ELSE value

\* a variant without the clone of line 153: value is this.form.value itself
\* (told apart by C18)
form_after_submitted_no_clone(button_id) == submitted_value(button_id)
\* lines 153-156: this.form.value after the call.  value is a shallow clone,
\* so the hoists into value and value[button_id] = true do not reach it; the
\* objects nested in it are shared with value and flattened in place.
form_after_submitted(button_id) == LiveLoop(form, form, Names(form), {})

\* a variant that emits the form value as it is, not flattened (told apart
\* by C1)
submitted_cancel_unflattened(button_id, is_cancel) ==
    IF is_cancel
    THEN Append(cancel, [data |-> IF Truthy(button_id)
                                  THEN Put(form, button_id.key, True) ELSE form,
                         call |-> calls + 1])
    ELSE cancel

\* lines 158-159: what the output cancel has emitted after the call
submitted_cancel(button_id, is_cancel) ==
    IF is_cancel
    THEN Append(cancel, [data |-> submitted_value(button_id), call |-> calls + 1])
    ELSE cancel

\* submitted (lines 151-163) in the component as ngOnInit wires it: a call
\* that is no cancel subscribes config$.first() (line 166), whose error has
\* no handler and is thrown out of the call.
submitted(button_id, is_cancel) ==
    /\ config_ = "pipeline"
    /\ ~IsStream(merge_src2)
    /\ calls < MaxCalls
    /\ calls' = calls + 1
    /\ form' = form_after_submitted(button_id)
    /\ cancel' = submitted_cancel(button_id, is_cancel)
    /\ http' = IF is_cancel THEN http ELSE SubscribeConfig(calls + 1).http
    /\ last' = [op |-> "submitted", button_id |-> button_id,
                is_cancel |-> is_cancel,
                raised |-> IF is_cancel THEN "none"
                           ELSE SubscribeConfig(calls + 1).error]
    /\ UNCHANGED <<emitted, returned>>
    /\ UNCHANGED <<url_, _config_, config_, merge_src2, extra_form_data,
                   pending, delivered, submit, snackBar, error_service, url_log>>

\* lines 167-175: the extra parameters as a plain object; HttpParams.get
\* gives the first value of a key
RECURSIVE ParamsObject(_, _)
ParamsObject(o, p) ==
    IF p = <<>> THEN o
    ELSE ParamsObject(Put(o, Head(p).k, Leaf(Head(p).vs[1])), Tail(p))
extra_object ==
    IF "params" \in DOMAIN extra_form_data
    THEN Plain(ParamsObject(<<>>, extra_form_data.params))
    ELSE extra_form_data
\* ...x in an object literal: the own properties of x, none for null/undefined
Spread(x) == IF "plain" \in DOMAIN x THEN x.plain ELSE <<>>
\* a variant with the spreads in the other order, {...data, ...extra} (told
\* apart by C6)
request_body_extra_last(extra, data) ==
    AssignAll(AssignAll(<<>>, data), Spread(extra))
\* lines 180, 183: the request body {...extra, ...data}
request_body(extra, data) == AssignAll(AssignAll(<<>>, Spread(extra)), data)
\* a variant whose default case posts (told apart by C2)
request_verb_default_post(method) ==
    CASE method = "patch" -> "patch"
      [] OTHER -> "post"
\* lines 178-187: the switch on config.method
request_verb(method) ==
    CASE method = "post" -> "post"
      [] method = "patch" -> "patch"
      [] OTHER -> "throw"

\* lines 166-205: the subscriber's next, run with the configuration that
\* config$.first() delivers to the waiting subscriber p.  It gives the
\* requests, the submit events and the error thrown.
submit_to_django_next(cfg, p) ==
    IF Truthy(cfg.django_url)
    THEN IF request_verb(cfg.method) = "throw"
         THEN [http |-> http, submit |-> submit, raised |-> "Unimplemented method"]
         ELSE [http |-> Append(http, Request(request_verb(cfg.method),
                                             cfg.django_url.str,
                                             Plain(request_body(extra_object, p.data)),
                                             p.call, Plain(p.data))),
               submit |-> submit, raised |-> "none"]
    ELSE [http |-> http,
          submit |-> Append(submit, [data |-> p.data, call |-> p.call]),
          raised |-> "none"]

\* ErrorService.show_communication_error (./error-service): the error is
\* reported and the stream it returns ends without a value.
show_communication_error(error) == [reported |-> error, emits |-> <<>>]

\* a variant whose catchError hands the error on as a value (told apart by C3)
call_pipe_error_as_value(outcome) == <<outcome.v>>

\* lines 188-190: call.pipe(catchError(...)): the values the subscriber of
\* line 190 is given for an outcome [ok, v] of the request
call_pipe(outcome) ==
    IF outcome.ok THEN <<outcome.v>>
    ELSE show_communication_error(outcome.v).emits

\* a variant that emits the request body in place of the payload (told apart
\* by C4)
submit_events_body(values, q) ==
    submit \o [i \in 1..Len(values) |->
                  [response |-> values[i], data |-> q.data.plain, call |-> q.call]]

\* lines 190-199: the subscriber of the request q, given the values
submit_events(values, q) ==
    submit \o [i \in 1..Len(values) |->
                  [response |-> values[i], data |-> q.ctx.plain, call |-> q.call]]
snackBar_opens(values, q) ==
    snackBar \o [i \in 1..Len(values) |-> [message |-> "Saved", call |-> q.call]]

Next ==
    \/ \E u \in UrlInputs : django_url(u)
    \/ \E c \in ConfigInputs : config(c)
    \/ \E e \in ExtraInputs : SetExtra(e)
    \/ \E v \in FormValues : FormEdit(v)
    \/ ngOnInit
    \/ Subscribe
    \/ \E b \in ButtonIds, c \in BOOLEAN : submitted(b, c)

\* The component as the source wires it.
Spec == Init /\ [][Next]_vars

(***************************************************************************)
(* The subscribers of submit_to_django on their own.  In Spec no           *)
(* subscriber of config$.first() is ever given a configuration (see        *)
(* SubscribeConfig), so the callbacks of lines 166-205 never run there.    *)
(* SpecSubscriber runs them on every configuration a source of             *)
(* configurations could deliver: config$ is taken as some stream, about    *)
(* which nothing is assumed but that first() hands a subscriber one        *)
(* configuration, or an error, at some later time.                         *)
(***************************************************************************)
InitSubscriber ==
    /\ url_ = Null
    /\ _config_ = Null
    /\ config_ = "source"
    /\ merge_src2 = "unset"
    /\ extra_form_data \in ExtraInputs
    /\ form \in FormValues
    /\ http = <<>>
    /\ pending = <<>>
    /\ delivered = <<>>
    /\ submit = <<>>
    /\ cancel = <<>>
    /\ snackBar = <<>>
    /\ error_service = <<>>
    /\ url_log = 0
    /\ calls = 0
    /\ last = NoCall
    /\ emitted = <<>>
    /\ returned = NoReturn

Without(seq, i) == [j \in 1..(Len(seq) - 1) |-> IF j < i THEN seq[j] ELSE seq[j + 1]]

\* submitted (lines 151-163); line 166 leaves a subscriber waiting
submitted_waiting(button_id, is_cancel) ==
    /\ config_ = "source"
    /\ calls < MaxCalls
    /\ calls' = calls + 1
    /\ form' = form_after_submitted(button_id)
    /\ cancel' = submitted_cancel(button_id, is_cancel)
    /\ pending' = IF is_cancel THEN pending
                  ELSE Append(pending, [call |-> calls + 1,
                                        data |-> submitted_value(button_id)])
    /\ last' = [op |-> "submitted", button_id |-> button_id,
                is_cancel |-> is_cancel, raised |-> "none"]
    /\ UNCHANGED <<emitted, returned>>
    /\ UNCHANGED <<url_, _config_, config_, merge_src2, extra_form_data, http,
                   delivered, submit, snackBar, error_service, url_log>>

\* config$.first() hands the waiting subscriber i the configuration cfg
source_next(i, cfg) ==
    /\ i \in 1..Len(pending)
    /\ LET r == submit_to_django_next(cfg, pending[i])
       IN  /\ http' = r.http
           /\ submit' = r.submit
           /\ delivered' = Append(delivered,
                                  [call |-> pending[i].call, config |-> cfg,
                                   data |-> pending[i].data,
                                   extra |-> extra_object, raised |-> r.raised])
    /\ pending' = Without(pending, i)
    /\ UNCHANGED <<emitted, returned>>
    /\ UNCHANGED <<url_, _config_, config_, merge_src2, extra_form_data, form,
                   cancel, snackBar, error_service, url_log, calls, last>>

\* config$.first() ends with an error for the waiting subscriber i: line 166
\* gives subscribe no error handler, the error is thrown
source_error(i) ==
    /\ i \in 1..Len(pending)
    /\ pending' = Without(pending, i)
    /\ last' = [op |-> "error", button_id |-> Null, is_cancel |-> FALSE,
                raised |-> "TypeError"]
    /\ UNCHANGED <<emitted, returned>>
    /\ UNCHANGED <<url_, _config_, config_, merge_src2, extra_form_data, form,
                   http, delivered, submit, cancel, snackBar, error_service,
                   url_log, calls>>

\* a variant in which a failed request is sent once more (told apart by C16)
request_settled_resent(j, ok, v) ==
    LET done == [http EXCEPT ![j].state = IF ok THEN "ok" ELSE "failed",
                             ![j].answer = v]
    IN  IF ok THEN done ELSE Append(done, http[j])
\* lines 113, 141-142, 188-190: the pipes of the three requests hold
\* catchError and map only: a request that ended stays ended and none is
\* issued in its place
request_settled(j, ok, v) ==
    [http EXCEPT ![j].state = IF ok THEN "ok" ELSE "failed", ![j].answer = v]

\* the request http[j] of a submission ends: with the response v (ok), or
\* with the transport error v
request_done(j, ok, v) ==
    /\ j \in 1..Len(http)
    /\ http[j].state = "pending"
    /\ http[j].verb \in {"post", "patch"}
    /\ LET values == call_pipe([ok |-> ok, v |-> v])
       IN  /\ submit' = submit_events(values, http[j])
           /\ snackBar' = snackBar_opens(values, http[j])
    /\ error_service' = IF ok THEN error_service
                        ELSE Append(error_service,
                                    [error |-> show_communication_error(v).reported,
                                     call |-> http[j].call])
    /\ http' = request_settled(j, ok, v)
    /\ UNCHANGED <<emitted, returned>>
    /\ UNCHANGED <<url_, _config_, config_, merge_src2, extra_form_data, form,
                   pending, delivered, cancel, url_log, calls, last>>

NextSubscriber ==
    \/ \E e \in ExtraInputs : SetExtra(e)
    \/ \E v \in FormValues : FormEdit(v)
    \/ \E b \in ButtonIds, c \in BOOLEAN : submitted_waiting(b, c)
    \/ \E i \in 1..MaxCalls, cfg \in Configs : source_next(i, cfg)
    \/ \E i \in 1..MaxCalls : source_error(i)
    \/ \E j \in 1..MaxCalls, r \in Responses : request_done(j, TRUE, r)
    \/ \E j \in 1..MaxCalls, e \in Errors : request_done(j, FALSE, e)

SpecSubscriber == InitSubscriber /\ [][NextSubscriber]_vars

(***************************************************************************)
(* The three request stages on their own: the form description             *)
(* (_download_django_form, lines 129-149), the initial data (lines         *)
(* 108-121) and the submission (lines 176-199), each subscribed with       *)
(* inputs of its own and its request left to end with a response or a      *)
(* transport error.  In Spec the first is torn down before its request     *)
(* ends and the other two are never reached (see SubscribeConfig).         *)
(***************************************************************************)
V == <<"v">>
\* form descriptions a server may answer with: without a django_url, with
\* one of its own, with a null one
ServerDescriptions == {
    <<Entry("method", Leaf("post"))>>,
    <<Entry("method", Leaf("post")), Entry("has_initial_data", True)>>,
    <<Entry("method", Leaf("patch")), Entry("django_url", Leaf(Str(V)))>>,
    <<Entry("django_url", Leaf(Null)), Entry("method", Leaf("post"))>>}
\* a variant that puts the supplied URL over the description's own (told
\* apart by C12)
download_map_url_last(url, description) ==
    Put(description, "django_url", Leaf(Str(url)))
\* lines 143-148: {django_url: django_url, ...config}
download_map(url, description) ==
    AssignAll(<<Entry("django_url", Leaf(Str(url)))>>, description)
\* line 24: the default of the input initial_data_transformation
initial_data_transformation(response) == response
\* lines 116-119: {..._config, initial_data: response}
initial_data_map(_config, response) ==
    Put(_config, "initial_data", Leaf(initial_data_transformation(response)))
\* the configurations that reach the initial-data stage (line 104)
InitialDataConfigs ==
    {download_map(U, d) : d \in {e \in ServerDescriptions : Has(e, "has_initial_data")}}

IsFormGet(q) == q.verb = "get" /\ "str" \in DOMAIN q.ctx
IsInitialDataGet(q) == q.verb = "get" /\ "config" \in DOMAIN q.ctx

\* _download_django_form(url) is subscribed: lines 135-140
download_subscribe(url) ==
    /\ calls < MaxCalls
    /\ calls' = calls + 1
    /\ http' = Append(http, _download_django_form(url, calls + 1))
    /\ UNCHANGED <<url_, _config_, config_, merge_src2, extra_form_data, form,
                   pending, delivered, submit, cancel, snackBar, error_service,
                   url_log, last, emitted, returned>>

\* its GET ends: lines 141-148
download_done(j, ok, v) ==
    /\ j \in 1..Len(http)
    /\ http[j].state = "pending"
    /\ IsFormGet(http[j])
    /\ LET values == call_pipe([ok |-> ok, v |-> v])
       IN  emitted' = emitted \o [i \in 1..Len(values) |->
                         [stage |-> "form",
                          value |-> download_map(http[j].ctx.str, values[i]),
                          call |-> http[j].call]]
    /\ error_service' = IF ok THEN error_service
                        ELSE Append(error_service,
                                    [error |-> show_communication_error(v).reported,
                                     call |-> http[j].call])
    /\ http' = request_settled(j, ok, v)
    /\ UNCHANGED <<url_, _config_, config_, merge_src2, extra_form_data, form,
                   pending, delivered, submit, cancel, snackBar, url_log, calls,
                   last, returned>>

\* a configuration that asks for initial data reaches line 109
initial_data_subscribe(_config) ==
    /\ calls < MaxCalls
    /\ calls' = calls + 1
    /\ http' = Append(http, Request("get", Get(_config, "django_url").s.str, Null,
                                    calls + 1, [config |-> _config]))
    /\ UNCHANGED <<url_, _config_, config_, merge_src2, extra_form_data, form,
                   pending, delivered, submit, cancel, snackBar, error_service,
                   url_log, last, emitted, returned>>

\* its GET ends: lines 112-119
initial_data_done(j, ok, v) ==
    /\ j \in 1..Len(http)
    /\ http[j].state = "pending"
    /\ IsInitialDataGet(http[j])
    /\ LET values == call_pipe([ok |-> ok, v |-> v])
       IN  emitted' = emitted \o [i \in 1..Len(values) |->
                         [stage |-> "initial_data",
                          value |-> initial_data_map(http[j].ctx.config, values[i]),
                          call |-> http[j].call]]
    /\ error_service' = IF ok THEN error_service
                        ELSE Append(error_service,
                                    [error |-> show_communication_error(v).reported,
                                     call |-> http[j].call])
    /\ http' = request_settled(j, ok, v)
    /\ UNCHANGED <<url_, _config_, config_, merge_src2, extra_form_data, form,
                   pending, delivered, submit, cancel, snackBar, url_log, calls,
                   last, returned>>

NextStages ==
    \/ \E u \in {U, U \o <<"/">>} : download_subscribe(u)
    \/ \E j \in 1..MaxCalls, d \in ServerDescriptions : download_done(j, TRUE, d)
    \/ \E j \in 1..MaxCalls, e \in Errors : download_done(j, FALSE, e)
    \/ \E c \in InitialDataConfigs : initial_data_subscribe(c)
    \/ \E j \in 1..MaxCalls, r \in Responses : initial_data_done(j, TRUE, r)
    \/ \E j \in 1..MaxCalls, e \in Errors : initial_data_done(j, FALSE, e)
    \/ submitted_waiting(Key("save"), FALSE)
    \/ \E i \in 1..MaxCalls : source_next(i, Config(Str(U), "post", FALSE))
    \/ \E j \in 1..MaxCalls, r \in Responses : request_done(j, TRUE, r)
    \/ \E j \in 1..MaxCalls, e \in Errors : request_done(j, FALSE, e)

SpecStages == InitSubscriber /\ [][NextStages]_vars

(***************************************************************************)
(* The functions _flatten (lines 208-222) and _generate_actions (lines     *)
(* 58-92) called on their own, on arguments built up to a bound.           *)
(***************************************************************************)
MaxEntries == 4    \* properties in a payload tree, nested ones included
MaxActions == 2    \* elements of an action list

TreeKeys == {"a", "b"} \cup Markers
\* the number of properties of an object, nested ones included
RECURSIVE Size(_)
Size(o) ==
    IF o = <<>> THEN 0
    ELSE 1 + (IF IsObject(Head(o).v) THEN Size(Head(o).v.o) ELSE 0) + Size(Tail(o))
\* the objects that have one property more than o: a scalar or an empty
\* object, added last to o or to an object nested in o
RECURSIVE Grow(_)
Grow(o) ==
    {Append(o, Entry(k, v)) : k \in TreeKeys \ {o[i].k : i \in 1..Len(o)},
                              v \in {Leaf("1"), Obj(<<>>)}}
    \cup UNION {{[o EXCEPT ![i].v = Obj(g)] : g \in Grow(o[i].v.o)} :
                i \in {j \in 1..Len(o) : IsObject(o[j].v)}}

\* JavaScript's undefined, where it has to be told from null
Undefined == [undef |-> TRUE]
Arr(a) == [arr |-> a]
Field(o, k) == IF Has(o, k) THEN Get(o, k) ELSE Undefined      \* o.k
Falsy(v) == v = Undefined \/ v = Leaf("") \/ v = Null
\* the elements of an action list: a scalar, null, pairs with and without
\* a label, objects with all, some and none of label, color and cancel
ActionElements == {
    Leaf("save"), Null,
    Arr(<<Leaf("cancel"), Leaf("Go Back")>>), Arr(<<Leaf("close")>>),
    Obj(<<Entry("id", Leaf("x")), Entry("label", Leaf("X")),
          Entry("color", Leaf("warn")), Entry("cancel", True)>>),
    Obj(<<Entry("id", Leaf("y"))>>),
    Obj(<<Entry("id", Leaf("z")), Entry("color", Leaf(""))>>)}
\* line 87: action.cancel; reading a property of null or undefined throws
action_cancel_throws(action) == IsNull(action) \/ action = Undefined
\* lines 62-88: the record pushed for one element
generate_action(action) ==
    IF "arr" \in DOMAIN action
    THEN LET action_id == IF Len(action.arr) >= 1 THEN action.arr[1] ELSE Undefined
             action_label == IF Len(action.arr) >= 2 THEN action.arr[2] ELSE Undefined
         IN  [id |-> action_id,
              label |-> IF action_label = Undefined THEN action_id ELSE action_label,
              color |-> Leaf("primary"), cancel |-> Undefined]
    ELSE IF ~IsObject(action)
    THEN [id |-> action, label |-> action, color |-> Leaf("primary"),
          cancel |-> Undefined]
    ELSE [id |-> Field(action.o, "id"), label |-> Field(action.o, "label"),
          color |-> IF Falsy(Field(action.o, "color")) THEN Leaf("primary")
                    ELSE Field(action.o, "color"),
          cancel |-> Field(action.o, "cancel")]
\* lines 58-92
_generate_actions(actions) ==
    IF IsNull(actions) THEN [raised |-> "none", ret |-> <<>>]
    ELSE IF \E i \in 1..Len(actions.list) : action_cancel_throws(actions.list[i])
    THEN [raised |-> "TypeError", ret |-> <<>>]
    ELSE [raised |-> "none",
          ret |-> [i \in 1..Len(actions.list) |-> generate_action(actions.list[i])]]

\* the component as constructed, with a call about to be made
InitFunctions ==
    /\ url_ = Null
    /\ _config_ = Null
    /\ config_ = "undefined"
    /\ merge_src2 = "unset"
    /\ extra_form_data = Null
    /\ form = <<>>
    /\ http = <<>>
    /\ pending = <<>>
    /\ delivered = <<>>
    /\ submit = <<>>
    /\ cancel = <<>>
    /\ snackBar = <<>>
    /\ error_service = <<>>
    /\ url_log = 0
    /\ calls = 0
    /\ last = NoCall
    /\ emitted = <<>>
    /\ returned \in {[fn |-> "_flatten", args |-> <<>>, done |-> FALSE],
                     [fn |-> "_generate_actions", args |-> Null, done |-> FALSE],
                     [fn |-> "_generate_actions", args |-> [list |-> <<>>],
                      done |-> FALSE]}

\* the argument of the call to come gets one property more
tree_grow ==
    /\ returned.fn = "_flatten"
    /\ ~returned.done
    /\ Size(returned.args) < MaxEntries
    /\ \E t \in Grow(returned.args) : returned' = [returned EXCEPT !.args = t]
    /\ UNCHANGED <<url_, _config_, config_, merge_src2, extra_form_data, form,
                   http, pending, delivered, submit, cancel, snackBar,
                   error_service, url_log, calls, last, emitted>>

\* the list to be passed gets one element more
list_grow(e) ==
    /\ returned.fn = "_generate_actions"
    /\ ~returned.done
    /\ ~IsNull(returned.args)
    /\ Len(returned.args.list) < MaxActions
    /\ returned' = [returned EXCEPT !.args.list = Append(@, e)]
    /\ UNCHANGED <<url_, _config_, config_, merge_src2, extra_form_data, form,
                   http, pending, delivered, submit, cancel, snackBar,
                   error_service, url_log, calls, last, emitted>>

\* this._flatten(null, value, null), as line 154 calls it
call__flatten ==
    /\ returned.fn = "_flatten"
    /\ ~returned.done
    /\ returned' = [fn |-> "_flatten", args |-> returned.args, done |-> TRUE,
                    value |-> _flatten(Null, Obj(returned.args), Null).current.o]
    /\ UNCHANGED <<url_, _config_, config_, merge_src2, extra_form_data, form,
                   http, pending, delivered, submit, cancel, snackBar,
                   error_service, url_log, calls, last, emitted>>

call__generate_actions ==
    /\ returned.fn = "_generate_actions"
    /\ ~returned.done
    /\ returned' = [fn |-> "_generate_actions", args |-> returned.args,
                    done |-> TRUE, value |-> _generate_actions(returned.args)]
    /\ UNCHANGED <<url_, _config_, config_, merge_src2, extra_form_data, form,
                   http, pending, delivered, submit, cancel, snackBar,
                   error_service, url_log, calls, last, emitted>>

NextFunctions ==
    \/ tree_grow
    \/ \E e \in ActionElements : list_grow(e)
    \/ call__flatten
    \/ call__generate_actions

SpecFunctions == InitFunctions /\ [][NextFunctions]_vars

(***************************************************************************)
(* Claims.                                                                 *)
(***************************************************************************)
OfCall(seq, c) == {i \in 1..Len(seq) : seq[i].call = c}
SubmitRequests == {j \in 1..Len(http) : http[j].verb \in {"post", "patch"}}
\* the flattened snapshot of the form value f, with the key of the button b
FlatSnapshot(f, b) ==
    LET flat == _flatten(Null, Obj(f), Null).current.o
    IN  IF Truthy(b) THEN Put(flat, b.key, True) ELSE flat

\* C1: a call of submitted with is_cancel true issues no HTTP request, leaves
\* no subscriber of config$ behind, emits no submit event and emits exactly
\* one cancel event, whose data is the flattened snapshot of the form values
\* at the call (with the button's key set to true when a button id is given).
C1_CancelEmitsOnly ==
    [][(calls' = calls + 1 /\ last'.op = "submitted" /\ last'.is_cancel)
        => /\ http' = http
           /\ pending' = pending
           /\ submit' = submit
           /\ cancel' = Append(cancel, [data |-> FlatSnapshot(form, last'.button_id),
                                        call |-> calls'])]_vars
\* a cancel with a button, after a form description was requested for a URL,
\* whose snapshot had a marker object to hoist
C1_Witness ==
    /\ last.op = "submitted" /\ last.is_cancel /\ Truthy(last.button_id)
    /\ http # <<>> /\ Truthy(url_)
    /\ cancel # <<>>
    /\ AsMap(cancel[Len(cancel)].data) =
           [k \in {"a", "b", "save"} |-> IF k = "save" THEN True ELSE Leaf("2")]

\* C2: a subscriber of submit_to_django that is given a configuration with a
\* remote target and a method other than 'post' and 'patch' throws, and for
\* that submission no request is issued, no notice shown, no submit emitted.
C2_UnsupportedMethodRaises ==
    \A i \in 1..Len(delivered) :
        (Truthy(delivered[i].config.django_url)
         /\ delivered[i].config.method \notin {"post", "patch"})
        => /\ delivered[i].raised # "none"
           /\ OfCall(http, delivered[i].call) = {}
           /\ OfCall(snackBar, delivered[i].call) = {}
           /\ OfCall(submit, delivered[i].call) = {}
C2_Witness ==
    \E i \in 1..Len(delivered) :
        /\ delivered[i].config = Config(Str(U), "put", FALSE)
        /\ delivered[i].raised = "Unimplemented method"

\* C3: when the POST/PATCH of a submission fails at transport level, the
\* error reporter is given that error, and for that submission there is no
\* submit event, no cancel event and no 'Saved' notice.
C3_TransportFailure ==
    \A j \in SubmitRequests :
        http[j].state = "failed"
        => /\ \E e \in OfCall(error_service, http[j].call) :
                  error_service[e].error = http[j].answer
           /\ OfCall(submit, http[j].call) = {}
           /\ OfCall(cancel, http[j].call) = {}
           /\ OfCall(snackBar, http[j].call) = {}
C3_Witness ==
    \E j \in SubmitRequests :
        /\ http[j].state = "failed" /\ http[j].answer = "e2"
        /\ \E k \in SubmitRequests : http[k].state = "ok"

\* C4: a submission against a configuration with a remote target and method
\* 'post' or 'patch': once its request got a response, the notice was shown
\* once and exactly one submit event was emitted for it, carrying that
\* response and the flattened payload of the call; while the request is
\* pending, no submit event was emitted for it.
C4_SuccessEmitsOnce ==
    \A j \in SubmitRequests :
        LET c == http[j].call
            d == CHOOSE i \in 1..Len(delivered) : delivered[i].call = c
        IN  /\ http[j].state = "pending"
               => OfCall(submit, c) = {} /\ OfCall(snackBar, c) = {}
            /\ http[j].state = "ok"
               => /\ Cardinality(OfCall(submit, c)) = 1
                  /\ Cardinality(OfCall(snackBar, c)) = 1
                  /\ \A e \in OfCall(submit, c) :
                         submit[e] = [response |-> http[j].answer,
                                      data |-> delivered[d].data, call |-> c]
\* a response arrived for a submission whose body differs from its payload
C4_Witness ==
    \E j \in SubmitRequests :
        /\ http[j].state = "ok" /\ http[j].answer = "r2"
        /\ OfCall(submit, http[j].call) # {}
        /\ http[j].data.plain # http[j].ctx.plain

GetsOf(h, url) == {i \in 1..Len(h) : h[i].verb = "get" /\ h[i].url = url}
\* a call of submitted that is no cancel
IsSubmission == calls' = calls + 1 /\ last'.op = "submitted" /\ ~last'.is_cancel

\* C5: a call of submitted that is no cancel, while the configuration in
\* effect is the config input and has no django_url, issues no HTTP request
\* and emits one submit event carrying the flattened payload.
C5_LocalEmit ==
    [][(IsSubmission /\ ~IsNull(_config_) /\ ~Truthy(_config_.django_url)
        /\ ~Truthy(url_))
        => /\ http' = http
           /\ submit' = Append(submit, [data |-> FlatSnapshot(form, last'.button_id),
                                        call |-> calls'])]_vars

\* C6 (as the code has it): the body of a POST/PATCH holds every key of the
\* payload and of the extra parameters; a key of the payload carries the
\* payload's value, also when the extra parameters have that key; a key of
\* the extra parameters only carries their value.
C6_PayloadWins ==
    \A j \in SubmitRequests :
        LET d == CHOOSE i \in 1..Len(delivered) : delivered[i].call = http[j].call
            body == AsMap(http[j].data.plain)
            data == AsMap(delivered[d].data)
            extra == AsMap(Spread(delivered[d].extra))
        IN  /\ DOMAIN body = DOMAIN data \cup DOMAIN extra
            /\ \A k \in DOMAIN data : body[k] = data[k]
            /\ \A k \in DOMAIN extra \ DOMAIN data : body[k] = extra[k]
\* C6 as stated: on a key that payload and extra parameters share, the body
\* carries the extra parameters' value.
C6_ExtraWins ==
    \A j \in SubmitRequests :
        LET d == CHOOSE i \in 1..Len(delivered) : delivered[i].call = http[j].call
            body == AsMap(http[j].data.plain)
            data == AsMap(delivered[d].data)
            extra == AsMap(Spread(delivered[d].extra))
        IN  /\ DOMAIN body = DOMAIN data \cup DOMAIN extra
            /\ \A k \in DOMAIN extra : body[k] = extra[k]
            /\ \A k \in DOMAIN data \ DOMAIN extra : body[k] = data[k]
\* a request whose payload and extra parameters share a key with two values,
\* and have a key each that the other has not
C6_Witness ==
    \E j \in SubmitRequests :
        LET d == CHOOSE i \in 1..Len(delivered) : delivered[i].call = http[j].call
            data == AsMap(delivered[d].data)
            extra == AsMap(Spread(delivered[d].extra))
        IN  /\ \E k \in DOMAIN data \cap DOMAIN extra : data[k] # extra[k]
            /\ DOMAIN data \ DOMAIN extra # {}
            /\ DOMAIN extra \ DOMAIN data # {}

\* C7: a call of submitted that is no cancel, while the configuration last
\* published is the config input (no URL in effect), which has a django_url
\* and asks for no initial data, is dispatched against that configuration:
\* the call does not throw and sends one request with the configuration's
\* method to its django_url.
C7_DispatchedAgainstPublished ==
    [][(IsSubmission /\ ~IsNull(_config_) /\ ~_config_.has_initial_data
        /\ Truthy(_config_.django_url) /\ ~Truthy(url_))
        => /\ last'.raised = "none"
           /\ Len(http') = Len(http) + 1
           /\ http'[Len(http')].verb = _config_.method
           /\ http'[Len(http')].url = _config_.django_url.str]_vars

\* C9: once a consumer has subscribed to config$ (a submission that is no
\* cancel does) while the configuration in effect asks for initial data,
\* exactly one GET has gone to that configuration's django_url.
C9_OneInitialDataGet ==
    [][(calls' = calls + 1 /\ ~last'.is_cancel /\ ~IsNull(_config_)
        /\ _config_.has_initial_data /\ Truthy(_config_.django_url))
        => Cardinality(GetsOf(http', _config_.django_url.str)) = 1]_vars

\* C10: a consumer that subscribes config$ (a submission that is no cancel
\* does) while a URL is in effect gets no error, and for it exactly one
\* request is issued, the GET of the URL's form description, which is left
\* to complete so that its configuration can be emitted.
C10_OneDescriptionGet ==
    [][(calls' = calls + 1 /\ ~last'.is_cancel /\ Truthy(url_))
        => /\ last'.raised = "none"
           /\ Len(http') = Len(http) + 1
           /\ http'[Len(http')].verb = "get"
           /\ http'[Len(http')].url = django_form_url(url_.str)
           /\ http'[Len(http')].state # "aborted"]_vars

\* C11: once ngOnInit has run, with the config input set to a configuration
\* that asks for no initial data and no URL in effect, a subscription of
\* config$ is handed that configuration and no error, so that a submission
\* that is no cancel runs against it.
C11_ConfigInputPublished ==
    (config_ = "pipeline" /\ ~IsNull(_config_) /\ ~_config_.has_initial_data
     /\ ~Truthy(url_))
    => /\ SubscribeConfig(calls + 1).emits = <<_config_>>
       /\ SubscribeConfig(calls + 1).error = "none"

FormConfigs == {i \in 1..Len(emitted) : emitted[i].stage = "form"}
\* the description the form GET of the emission e was answered with
DescriptionOf(e) ==
    http[CHOOSE j \in 1..Len(http) : http[j].call = emitted[e].call].answer
SuppliedOf(e) ==
    http[CHOOSE j \in 1..Len(http) : http[j].call = emitted[e].call].ctx

\* C12 (as the code has it): the configuration the form fetch produces has
\* the django_url of the description when the description has a django_url
\* field (whatever its value), and the URL supplied through django_url when
\* it has none; every other field is the description's.
C12_DescriptionUrlKept ==
    \A e \in FormConfigs :
        LET c == AsMap(emitted[e].value)
            d == AsMap(DescriptionOf(e))
        IN  /\ DOMAIN c = DOMAIN d \cup {"django_url"}
            /\ \A k \in DOMAIN d : c[k] = d[k]
            /\ "django_url" \notin DOMAIN d => c["django_url"] = Leaf(SuppliedOf(e))
\* C12 as stated: the django_url of the configuration is the supplied URL,
\* for every description.
C12_SuppliedUrlAlways ==
    \A e \in FormConfigs :
        AsMap(emitted[e].value)["django_url"] = Leaf(SuppliedOf(e))
\* configurations were produced from a description with a django_url of its
\* own and from one without, for a URL with a trailing slash
C12_Witness ==
    /\ \E e \in FormConfigs :
           /\ Has(DescriptionOf(e), "django_url")
           /\ AsMap(emitted[e].value)["django_url"] = Leaf(Str(V))
    /\ \E e \in FormConfigs :
           /\ ~Has(DescriptionOf(e), "django_url")
           /\ AsMap(emitted[e].value)["django_url"] = Leaf(Str(U \o <<"/">>))

Flattened == returned.fn = "_flatten" /\ returned.done
IsMarkerObject(e) == e.k \in Markers /\ IsObject(e.v)
\* no marker key maps to an object, at any depth of o
RECURSIVE NoMarkerObject(_)
NoMarkerObject(o) ==
    \A i \in 1..Len(o) :
        /\ ~IsMarkerObject(o[i])
        /\ IsObject(o[i].v) => NoMarkerObject(o[i].v.o)
\* the fields that o is to have: its own, with each marker object replaced
\* by the fields that object is to have
RECURSIVE EffFields(_)
EffFields(o) ==
    IF o = <<>> THEN <<>>
    ELSE (IF IsMarkerObject(Head(o)) THEN EffFields(Head(o).v.o) ELSE <<Head(o)>>)
         \o EffFields(Tail(o))
\* every field that `in` is to have appears in `out`, and so on in depth
RECURSIVE Hoisted(_, _)
Hoisted(in, out) ==
    \A i \in 1..Len(EffFields(in)) :
        LET e == EffFields(in)[i]
        IN  /\ Has(out, e.k)
            /\ IsObject(e.v) => /\ IsObject(Get(out, e.k))
                                /\ Hoisted(e.v.o, Get(out, e.k).o)
\* the keys that meet in o while it is flattened: those of its fields, of
\* the marker objects in it and of what is hoisted out of them
RECURSIVE MeetingKeys(_)
MeetingKeys(o) ==
    IF o = <<>> THEN <<>>
    ELSE <<Head(o).k>>
         \o (IF IsMarkerObject(Head(o)) THEN MeetingKeys(Head(o).v.o) ELSE <<>>)
         \o MeetingKeys(Tail(o))
\* no two of them are the same, in o and in every object nested in it
RECURSIVE NoKeyMeetsTwice(_)
NoKeyMeetsTwice(o) ==
    /\ \A i, j \in 1..Len(MeetingKeys(o)) :
           i # j => MeetingKeys(o)[i] # MeetingKeys(o)[j]
    /\ \A i \in 1..Len(EffFields(o)) :
           IsObject(EffFields(o)[i].v) => NoKeyMeetsTwice(EffFields(o)[i].v.o)
Example1 == <<Entry("a", Leaf("1")),
              Entry("generated_x", Obj(<<Entry("b", Leaf("2")), Entry("c", Leaf("3"))>>))>>
Example2 == <<Entry("generated_x",
                    Obj(<<Entry("generated_y", Obj(<<Entry("b", Leaf("1"))>>))>>))>>
ExamplesHold ==
    /\ _flatten(Null, Obj(Example1), Null).current.o
           = <<Entry("a", Leaf("1")), Entry("b", Leaf("2")), Entry("c", Leaf("3"))>>
    /\ _flatten(Null, Obj(Example2), Null).current.o = <<Entry("b", Leaf("1"))>>

\* C13 (as the code has it): after _flatten no marker key maps to an object
\* at any depth; when no two keys meet in one object while it is flattened
\* (a hoisted field, the marker objects it is hoisted out of and the fields
\* and marker objects of the object it lands in all have different keys),
\* each marker object's fields appear in its nearest non-marker ancestor;
\* the two examples come out as stated.
C13_HoistedWithoutClash ==
    Flattened
    => /\ NoMarkerObject(returned.value)
       /\ NoKeyMeetsTwice(returned.args) => Hoisted(returned.args, returned.value)
       /\ ExamplesHold
\* C13 as stated: the same for every tree, whatever its keys.
C13_HoistedAlways ==
    Flattened
    => /\ NoMarkerObject(returned.value)
       /\ Hoisted(returned.args, returned.value)
       /\ ExamplesHold
\* the second example was flattened
C13_Witness ==
    /\ Flattened
    /\ returned.args = <<Entry("generated_x",
                               Obj(<<Entry("generated_y", Obj(<<Entry("b", Leaf("1"))>>))>>))>>
    /\ returned.value = <<Entry("b", Leaf("1"))>>
    /\ NoKeyMeetsTwice(returned.args)

\* no marker key in o, at any depth
RECURSIVE NoMarkerKey(_)
NoMarkerKey(o) ==
    \A i \in 1..Len(o) :
        /\ o[i].k \notin Markers
        /\ IsObject(o[i].v) => NoMarkerKey(o[i].v.o)
\* C14: _flatten leaves a tree that has no marker key at any depth as it is.
C14_NoMarkerUnchanged ==
    (Flattened /\ NoMarkerKey(returned.args)) => returned.value = returned.args
\* a tree of depth three without marker keys was flattened
C14_Witness ==
    /\ Flattened
    /\ NoMarkerKey(returned.args)
    /\ \E i \in 1..Len(returned.args) :
           /\ IsObject(returned.args[i].v)
           /\ \E j \in 1..Len(returned.args[i].v.o) :
                  /\ IsObject(returned.args[i].v.o[j].v)
                  /\ returned.args[i].v.o[j].v.o # <<>>

Generated == returned.fn = "_generate_actions" /\ returned.done
\* the record the claim gives for the element e
NormalizedAs(e, rec) ==
    IF "arr" \in DOMAIN e
    THEN /\ rec.id = (IF Len(e.arr) >= 1 THEN e.arr[1] ELSE Undefined)
         /\ rec.label = (IF Len(e.arr) >= 2 THEN e.arr[2] ELSE rec.id)
         /\ rec.color = Leaf("primary")
    ELSE IF IsObject(e)
    THEN /\ rec.id = Field(e.o, "id")
         /\ rec.label = Field(e.o, "label")
         /\ rec.cancel = Field(e.o, "cancel")
         /\ rec.color = (IF Falsy(Field(e.o, "color")) THEN Leaf("primary")
                         ELSE Field(e.o, "color"))
    ELSE /\ rec.id = e
         /\ rec.label = e
         /\ rec.color = Leaf("primary")

\* C15: _generate_actions throws nothing and returns, for null, the empty
\* list, and for a list one record per element in the order of the list: a
\* scalar as id and label, a pair's first element as id and its second (or,
\* without one, the id) as label, an object's id, label and cancel; the color
\* is the object's when it has one and 'primary' otherwise.
C15_NormalizedNeverThrows ==
    Generated
    => /\ returned.value.raised = "none"
       /\ IsNull(returned.args) => returned.value.ret = <<>>
       /\ ~IsNull(returned.args)
          => /\ Len(returned.value.ret) = Len(returned.args.list)
             /\ \A i \in 1..Len(returned.args.list) :
                    NormalizedAs(returned.args.list[i], returned.value.ret[i])

\* C16: when a form-description GET, an initial-data GET or a submit request
\* has failed, the error reporter was given its error once, nothing was
\* emitted for it (no configuration, no submit event, no notice) and no
\* other request was issued for the subscription or call it stems from.
C16_NoRetry ==
    \A j \in 1..Len(http) :
        http[j].state = "failed"
        => /\ Cardinality(OfCall(error_service, http[j].call)) = 1
           /\ \A e \in OfCall(error_service, http[j].call) :
                  error_service[e].error = http[j].answer
           /\ OfCall(emitted, http[j].call) = {}
           /\ OfCall(submit, http[j].call) = {}
           /\ OfCall(snackBar, http[j].call) = {}
           /\ Cardinality(OfCall(http, http[j].call)) = 1
\* a form-description GET and an initial-data GET have both failed
C16_Witness ==
    /\ \E j \in 1..Len(http) : IsFormGet(http[j]) /\ http[j].state = "failed"
    /\ \E j \in 1..Len(http) : IsInitialDataGet(http[j]) /\ http[j].state = "failed"
    /\ Len(error_service) = 2

\* C17: a call of submitted, cancel or not, leaves the value object of the
\* form and every object nested in it as they were.
C17_LiveFormUnchanged ==
    [][(calls' = calls + 1 /\ last'.op = "submitted") => form' = form]_vars

\* every key of o, at any depth
RECURSIVE DeepKeys(_)
DeepKeys(o) ==
    {o[i].k : i \in 1..Len(o)}
    \cup UNION {DeepKeys(o[i].v.o) : i \in {j \in 1..Len(o) : IsObject(o[j].v)}}
ButtonKeys == {b.key : b \in {x \in ButtonIds : Truthy(x)}}
\* C18: in a call of submitted with a button id the payload (of the cancel
\* event, or handed to submit_to_django) has the button's key set to true; a
\* button's key is in the payload of a call only if it is the button of
\* that call or a key of the form values; and the call adds no key to the
\* form values, so that no later call finds the button's key there.
C18_ButtonNotRemembered ==
    [][(calls' = calls + 1 /\ last'.op = "submitted")
        => LET payload == IF last'.is_cancel THEN cancel'[Len(cancel')].data
                          ELSE pending'[Len(pending')].data
               b == last'.button_id
           IN  /\ Truthy(b) => Has(payload, b.key) /\ Get(payload, b.key) = True
               /\ \A k \in ButtonKeys :
                      Has(payload, k) => (b = Key(k) \/ k \in DeepKeys(form))
               /\ DeepKeys(form') \subseteq DeepKeys(form)]_vars
\* a cancel with the button 'save' on a form without that key, then a
\* submission without a button: its payload has no key 'save'
C18_Witness ==
    /\ cancel = <<[data |-> <<Entry("a", Leaf("1")), Entry("save", True)>>, call |-> 1]>>
    /\ pending = <<[call |-> 2, data |-> <<Entry("a", Leaf("1"))>>]>>
    /\ form = <<Entry("a", Leaf("1"))>>

\* C19: a consumer has subscribed config$ while an earlier URL was in effect
\* and its form description was requested; when a later URL is then given
\* to django_url, the form description of the later URL is requested for
\* that consumer, and the earlier request is neither aborted nor changed.
C19_LaterUrlFetched ==
    [][(url_log' = url_log + 1 /\ Truthy(url_') /\ last.op = "subscribe"
        /\ http # <<>>)
        => /\ Len(http') = Len(http) + 1
           /\ http'[Len(http')].url = django_form_url(url_'.str)
           /\ \A i \in 1..Len(http) :
                  http'[i] = http[i] /\ http[i].state # "aborted"]_vars

====
